---- MODULE Spec2Model ----
(***************************************************************************)
(* A model of the SFDD sensor fault detection engine: the structural       *)
(* model (src/sfdd/structural_model.py), the correlation and pattern       *)
(* libraries (src/sfdd/correlation.py, src/sfdd/patterns.py) and the       *)
(* engine with its learning and monitoring calls (src/sfdd/sfdd.py).       *)
(*                                                                         *)
(* Conventions.  A Python list or numpy array is a sequence, a matrix the  *)
(* sequence of its rows; the element the code calls x[i] is written        *)
(* x[i + 1], and every index kept in the state or in a result (sensor      *)
(* indices, pattern indices) is the code's own 0-based index.               *)
(* Measurements and timestamps are rationals given as whole numbers of     *)
(* MeasTick and TimeTick; every comparison with a threshold is made        *)
(* exactly, by cross-multiplication.  A call that raises leaves the state  *)
(* as the code left it when the exception was thrown and records           *)
(* result.raised = TRUE.                                                   *)
(***************************************************************************)
EXTENDS Integers, Sequences, FiniteSets, TLC

VARIABLES
    phase,                     \* "unloaded", "loaded", "engine", "engine_failed"
                               \* (SFDD.__init__ raised)
    model_config,              \* the parsed structural model description
    structural_model,          \* StructuralModel.structural_model (the DiGraph)
    sensors,                   \* StructuralModel.sensors
    sensor_names,              \* SFDD.sensor_names
    independent_sensors,       \* SFDD.independent_sensors
    correlated_sensors,        \* SFDD.correlated_sensors
    correlated_sensor_indices, \* SFDD.correlated_sensor_indices
    sensor_pattern_pairs,      \* SFDD.sensor_pattern_pairs
    sensor_working,            \* SFDD.sensor_working
    training,                  \* the training data set and its timestamps
    learn_calls,               \* the calls of learn_correlations made so far
    call,                      \* the last call made and its arguments
    result                     \* what the last call returned, or that it raised

vars == <<phase, model_config, structural_model, sensors, sensor_names,
          independent_sensors, correlated_sensors, correlated_sensor_indices,
          sensor_pattern_pairs, sensor_working, training, learn_calls,
          call, result>>

engine_vars == <<sensor_names, independent_sensors, correlated_sensors,
                 correlated_sensor_indices, sensor_pattern_pairs, sensor_working>>

model_vars == <<model_config, structural_model, sensors>>

script_vars == <<training, learn_calls>>

-----------------------------------------------------------------------------
(* Generic helpers *)

Abs(x) == IF x < 0 THEN -x ELSE x

RECURSIVE SumTo(_, _)
\* x[1] + ... + x[n]
SumTo(x, n) == IF n = 0 THEN 0 ELSE x[n] + SumTo(x, n - 1)

\* data.shape[0]
NumRows(data) == Len(data)

\* data.shape[1]
NumCols(data) == Len(data[1])

\* data[lo:hi] of a matrix or a vector (hi clipped to the length, as Python does)
Slice(data, lo, hi) == SubSeq(data, lo + 1, IF hi > Len(data) THEN Len(data) ELSE hi)

\* data.T[c]: column c (0-based) of a matrix
Column(data, c) == [r \in 1..Len(data) |-> data[r][c + 1]]

\* The ascending list of the members of a finite set of integers
RECURSIVE Ascending(_)
Ascending(S) ==
    IF S = {} THEN <<>>
    ELSE LET m == CHOOSE x \in S : \A y \in S : x <= y
         IN  <<m>> \o Ascending(S \ {m})

\* "x in list"
InList(x, list) == \E k \in 1..Len(list) : list[k] = x

\* list.index(x) for a list given as a sequence, 0-based
IndexOf(x, list) == (CHOOSE k \in 1..Len(list) : list[k] = x /\ \A m \in 1..(k - 1) : list[m] # x) - 1

Returned(v) == [raised |-> FALSE, value |-> v]

Raised == [raised |-> TRUE, value |-> <<>>]

NoCall == [op |-> "none"]

-----------------------------------------------------------------------------
(* Rational arithmetic for thresholds, measurements and slopes *)

RECURSIVE GCD(_, _)
GCD(a, b) == IF b = 0 THEN a ELSE GCD(b, a % b)

\* the rational n/d, d positive, in lowest terms
Rat(n, d) ==
    LET g == GCD(Abs(n), d)
    IN  [num |-> n \div g, den |-> d \div g]

\* a/b > c/d for positive denominators
RatGT(x, y) == x.num * y.den > y.num * x.den

\* |x - y| for positive denominators
RatAbsDiff(x, y) == Rat(Abs(x.num * y.den - y.num * x.den), x.den * y.den)

\* One unit of a measurement value: 0.0004
MeasTick == Rat(1, 2500)

\* One unit of a timestamp: 0.01 s
TimeTick == Rat(1, 100)

\* threshold=1e-3, the default of stuck_at and of drift
PatternThreshold == Rat(1, 1000)

\* correlation_threshold as the entry point passes it: 0.8
correlation_threshold == Rat(4, 5)

\* pattern_count as the entry point passes it
pattern_count == 2

-----------------------------------------------------------------------------
(* The structural model: src/sfdd/structural_model.py *)

\* ComponentTypeEnum
SENSOR == "sensor"

SUBSYSTEM == "subsystem"

\* ComponentParams: one component of a description.  parents is the set of
\* the names the description lists (add_edge is idempotent and the order of
\* the list is never read).
ComponentParams(name, type, parents) == [name |-> name, type |-> type, parents |-> parents]

\* __read_model_data: the components of model_config['system_components'],
\* in the order of the description; nothing is validated
read_model_data(config) == config

\* networkx.DiGraph.add_edge over every (parent, component) pair: both ends
\* of an edge become nodes of the graph, whether or not the parent is the
\* name of a described component
create_model(components) ==
    LET edges == {<<parent, components[k].name>> :
                     parent \in UNION {components[j].parents : j \in 1..Len(components)},
                     k \in 1..Len(components)}
        real  == {e \in edges : \E k \in 1..Len(components) :
                     components[k].name = e[2] /\ e[1] \in components[k].parents}
    IN  [nodes |-> {e[1] : e \in real} \cup {e[2] : e \in real}, edges |-> real]

\* StructuralModel.__init__, the list of sensors: the components of type
\* sensor in the order of the description
SensorsOf(components) ==
    LET F[k \in 0..Len(components)] ==
            IF k = 0 THEN <<>>
            ELSE IF components[k].type = SENSOR
                 THEN Append(F[k - 1], components[k].name)
                 ELSE F[k - 1]
    IN  F[Len(components)]

RECURSIVE Reach(_, _)
\* the nodes from which a node of "seen" is reachable, "seen" included
Reach(graph, seen) ==
    LET more == {e[1] : e \in {d \in graph.edges : d[2] \in seen}} \ seen
    IN  IF more = {} THEN seen ELSE Reach(graph, seen \cup more)

\* networkx.algorithms.dag.ancestors: every node with a path to source,
\* source itself excluded (defined for the nodes of the graph only)
ancestors(graph, source) == Reach(graph, {source}) \ {source}

\* ancestors raises NetworkXError for a name that is no node of the graph
AncestorsRaises(graph, source) == source \notin graph.nodes

\* the test of find_independent_sensors with the intersection replaced by
\* a containment test
find_independent_loop_subset(graph, sensor, sensor_list) ==
    LET sensor_ancestors == ancestors(graph, sensor)
        F[k \in 0..Len(sensor_list)] ==
            IF k = 0 THEN <<>>
            ELSE IF ~(sensor_ancestors \subseteq ancestors(graph, sensor_list[k]))
                 THEN Append(F[k - 1], sensor_list[k])
                 ELSE F[k - 1]
    IN  F[Len(sensor_list)]

\* the loop of find_independent_sensors over sensor_list[1..k]
find_independent_loop(graph, sensor, sensor_list) ==
    LET sensor_ancestors == ancestors(graph, sensor)
        F[k \in 0..Len(sensor_list)] ==
            IF k = 0 THEN <<>>
            ELSE IF sensor_ancestors \cap ancestors(graph, sensor_list[k]) = {}
                 THEN Append(F[k - 1], sensor_list[k])
                 ELSE F[k - 1]
    IN  F[Len(sensor_list)]

\* StructuralModel.find_independent_sensors
find_independent_sensors(graph, sensor, sensor_list) ==
    IF AncestorsRaises(graph, sensor)
       \/ \E k \in 1..Len(sensor_list) : AncestorsRaises(graph, sensor_list[k])
    THEN Raised
    ELSE Returned(find_independent_loop(graph, sensor, sensor_list))

NoModel == [nodes |-> {}, edges |-> {}]

-----------------------------------------------------------------------------
(* The pattern library: src/sfdd/patterns.py *)

\* abs(x - prev_x) > threshold for two measurements given in MeasTick
StepExceeds(x, prev_x) ==
    RatGT(Rat(Abs(x - prev_x) * MeasTick.num, MeasTick.den), PatternThreshold)

\* PatternLibrary.stuck_at: no sample differs from the one before it by more
\* than the threshold (prev_x starts as measurements[0])
stuck_at(measurements) ==
    \A k \in 2..Len(measurements) : ~StepExceeds(measurements[k], measurements[k - 1])

\* (measurements[i] - measurements[i-1]) / (timesteps[i] - timesteps[i-1])
\* as a rational with a positive denominator (timestamps increase)
Slope(measurements, timesteps, i) ==
    Rat((measurements[i + 1] - measurements[i]) * MeasTick.num * TimeTick.den,
        (timesteps[i + 1] - timesteps[i]) * MeasTick.den * TimeTick.num)

\* abs(slope - prev_slope) > threshold
SlopeExceeds(slope, prev_slope) == RatGT(RatAbsDiff(slope, prev_slope), PatternThreshold)

RECURSIVE drift_loop_lenient(_, _, _, _, _)
\* a loop that goes on after a second change of slope instead of returning
\* False: any number of changes, one at least, gives True
drift_loop_lenient(measurements, timesteps, i, prev_slope, slope_changed) ==
    IF i >= Len(measurements) THEN slope_changed
    ELSE LET slope == Slope(measurements, timesteps, i)
         IN  drift_loop_lenient(measurements, timesteps, i + 1, slope,
                                slope_changed \/ SlopeExceeds(slope, prev_slope))

RECURSIVE drift_loop(_, _, _, _, _)
\* the loop of drift from index i (0-based) on
drift_loop(measurements, timesteps, i, prev_slope, slope_changed) ==
    IF i >= Len(measurements) THEN slope_changed
    ELSE LET slope == Slope(measurements, timesteps, i)
         IN  IF SlopeExceeds(slope, prev_slope)
             THEN IF ~slope_changed
                  THEN drift_loop(measurements, timesteps, i + 1, slope, TRUE)
                  ELSE FALSE
             ELSE drift_loop(measurements, timesteps, i + 1, slope, slope_changed)

\* PatternLibrary.drift (two samples at least, or measurements[1] raises)
drift(measurements, timesteps) ==
    drift_loop(measurements, timesteps, 1, Slope(measurements, timesteps, 1), FALSE)

-----------------------------------------------------------------------------
(* The correlation library: src/sfdd/correlation.py *)

\* n times the sum of the products minus the product of the sums: the
\* covariance of x and y scaled by n * n
ScaledCov(x, y) ==
    LET n == Len(x)
    IN  n * SumTo([k \in 1..n |-> x[k] * y[k]], n) - SumTo(x, n) * SumTo(y, n)

\* One entry of numpy.corrcoef between the variables x and y, in absolute
\* value: NaN when one of them has zero variance, else the rational whose
\* square is sq.num / sq.den
Coefficient(x, y) ==
    LET xx == ScaledCov(x, x)
        yy == ScaledCov(y, y)
        xy == ScaledCov(x, y)
    IN  IF xx = 0 \/ yy = 0
        THEN [nan |-> TRUE, sq |-> Rat(0, 1)]
        ELSE [nan |-> FALSE, sq |-> Rat(xy * xy, xx * yy)]

\* numpy.corrcoef(m, rowvar=False): each column of the matrix is a variable;
\* the variables, in order
ColumnVariables(input_matrix) ==
    [c \in 1..NumCols(input_matrix) |-> Column(input_matrix, c - 1)]

\* numpy.corrcoef(m, rowvar=True): each ROW of the matrix is a variable and
\* the columns are its observations; the variables, in order
RowVariables(input_matrix) == input_matrix

\* CorrelationLibrary.pearson: np.corrcoef(input_matrix, rowvar=True).  The
\* result is square with one row and one column per variable
pearson_variables(input_matrix) == RowVariables(input_matrix)

\* correlations.shape[0] of correlations = pearson(input_matrix)
pearson_size(input_matrix) == Len(pearson_variables(input_matrix))

\* entry [i][j] (0-based) of pearson(input_matrix)
pearson(input_matrix, i, j) ==
    Coefficient(pearson_variables(input_matrix)[i + 1], pearson_variables(input_matrix)[j + 1])

\* entry [i][j] of np.abs(pearson(...)) with the NaN entries set to 1.,
\* given by its square
AbsNoNaN(input_matrix, i, j) ==
    LET c == pearson(input_matrix, i, j)
    IN  IF c.nan THEN Rat(1, 1) ELSE c.sq

\* entry > self.correlation_threshold, for an entry given by its square
AboveThreshold(sq) ==
    RatGT(sq, Rat(correlation_threshold.num * correlation_threshold.num,
                  correlation_threshold.den * correlation_threshold.den))

\* correlations[i] raises IndexError
NoRow(input_matrix, i) == i >= pearson_size(input_matrix)

\* np.where(correlations[i] > self.correlation_threshold)[0] for
\* correlations = np.abs(pearson(input_matrix)) with NaN set to 1.
CorrelatedIdx(input_matrix, i) ==
    {j \in 0..(pearson_size(input_matrix) - 1) :
        AboveThreshold(AbsNoNaN(input_matrix, i, j))}

-----------------------------------------------------------------------------
(* The engine: src/sfdd/sfdd.py *)

\* the name of the sensor with 0-based index i
NameAt(names, i) == names[i + 1]

SensorIdx(names) == 0..(Len(names) - 1)

NameSet(names) == {names[k] : k \in 1..Len(names)}

\* SFDD.__init__, the loop that fills self.independent_sensors: the indices
\* of the sensors find_independent_sensors returns for each sensor
IndependenceMap(graph, names) ==
    [sensor \in NameSet(names) |->
        LET independent == find_independent_sensors(graph, sensor, names).value
        IN  {IndexOf(independent[k], names) : k \in 1..Len(independent)}]

\* SFDD.__init__ raises when find_independent_sensors does
InitRaises(graph, names) ==
    \E k \in 1..Len(names) : find_independent_sensors(graph, names[k], names).raised

RECURSIVE calculate_patterns_from(_, _, _)
\* the loop of __calculate_patterns from column i (0-based) on: one row
\* <<stuck_at, drift>> per sensor (pattern_count = 2 columns)
calculate_patterns_from(data, timestamps, i) ==
    IF i >= NumCols(data) THEN <<>>
    ELSE << <<stuck_at(Column(data, i)), drift(Column(data, i), timestamps)>> >>
         \o calculate_patterns_from(data, timestamps, i + 1)

\* SFDD.__calculate_patterns: row i holds stuck_at and drift of column i;
\* drift reads timestamps[0], timestamps[1], ... whatever rows of the data
\* set the window came from
calculate_patterns(data, timestamps) == calculate_patterns_from(data, timestamps, 0)

\* np.where(patterns[i])[0]
ActivePatterns(patterns, i) == {p \in 0..(pattern_count - 1) : patterns[i + 1][p + 1]}

\* np.any(patterns[i])
AnyPattern(patterns, i) == \E p \in 0..(pattern_count - 1) : patterns[i + 1][p + 1]

\* int(np.where(patterns[i])[0][0])
FirstPattern(patterns, i) ==
    CHOOSE p \in ActivePatterns(patterns, i) : \A q \in ActivePatterns(patterns, i) : p <= q

\* set(np.where(patterns[:, pattern_idx])[0])
PatternSensors(patterns, pattern_idx) ==
    {j \in 0..(Len(patterns) - 1) : patterns[j + 1][pattern_idx + 1]}

RECURSIVE basic_pattern_loop(_, _, _, _, _, _)
\* monitor_sensors_basic, lines 230-243: the loop over the active patterns
\* of one sensor from position k on; yields the sensor's flag
basic_pattern_loop(active_pattern_indices, k, correlated_sensor_idx, independent, patterns, working) ==
    IF k > Len(active_pattern_indices) THEN working
    ELSE LET pattern_sensors == PatternSensors(patterns, active_pattern_indices[k])
             correlated_pattern_sensors == correlated_sensor_idx \cap pattern_sensors
         IN  IF correlated_pattern_sensors \cap independent = {}
             THEN ~working
             ELSE basic_pattern_loop(active_pattern_indices, k + 1, correlated_sensor_idx,
                                     independent, patterns, TRUE)

\* monitor_sensors_basic, lines 217-243, for sensor i alone: its flag after
\* its turn in the loop
basic_flag(i, independent, correlation_data, patterns, working) ==
    IF ~AnyPattern(patterns, i) THEN TRUE
    ELSE basic_pattern_loop(Ascending(ActivePatterns(patterns, i)), 1,
                            CorrelatedIdx(correlation_data, i), independent, patterns, working)

RECURSIVE basic_loop(_, _, _, _, _, _)
\* monitor_sensors_basic, lines 217-243: the loop over the sensors from
\* sensor i (0-based) on.  Yields the flags of the sensors i, i+1, ... in
\* order; a sensor with a pattern and no row correlations[i] raises
\* IndexError, and the flags from that sensor on stay as they were
basic_loop(i, names, independent, correlation_data, patterns, working) ==
    IF i >= Len(names) THEN <<>>
    ELSE IF AnyPattern(patterns, i) /\ NoRow(correlation_data, i)
    THEN [k \in 1..(Len(names) - i) |-> working[names[i + k]]]
    ELSE << basic_flag(i, independent[names[i + 1]], correlation_data, patterns,
                       working[names[i + 1]]) >>
         \o basic_loop(i + 1, names, independent, correlation_data, patterns, working)

\* monitor_sensors_basic, lines 199-243: the flags after the loop over the
\* sensors, and whether correlations[i] raised IndexError on the way
basic_update(names, independent, working, data, timestamps, window_size) ==
    LET ws == IF window_size = -1 THEN NumRows(data) \div 2 ELSE window_size
        correlation_data == Slice(data, 0, ws)
        investigated_data == Slice(data, ws, NumRows(data))
        patterns == calculate_patterns(investigated_data, timestamps)
        flags == basic_loop(0, names, independent, correlation_data, patterns, working)
    IN  [working |-> [sensor \in NameSet(names) |-> flags[IndexOf(sensor, names) + 1]],
         raised |-> \E i \in SensorIdx(names) :
                        AnyPattern(patterns, i) /\ NoRow(correlation_data, i)]

\* monitor_sensors_basic, lines 245-248: the sensors whose flag is False, in
\* the order of sensor_names
NotWorking(names, working) ==
    LET F[n \in 0..Len(names)] ==
            IF n = 0 THEN <<>>
            ELSE IF ~working[names[n]] THEN Append(F[n - 1], names[n]) ELSE F[n - 1]
    IN  F[Len(names)]

RECURSIVE learn_idx_loop(_, _, _, _, _)
\* learn_correlations, lines 85-88: the loop over correlated_sensor_idx from
\* position k on, for the matrix row i.  self.sensor_names[idx] raises
\* IndexError for an idx that is no sensor index, before anything is appended
learn_idx_loop(i, correlated_sensor_idx, k, names, learned) ==
    IF k > Len(correlated_sensor_idx) THEN learned
    ELSE LET idx == correlated_sensor_idx[k]
         IN  IF i = idx
             THEN learn_idx_loop(i, correlated_sensor_idx, k + 1, names, learned)
             ELSE IF idx >= Len(names)
             THEN [learned EXCEPT !.raised = TRUE]
             ELSE learn_idx_loop(i, correlated_sensor_idx, k + 1, names,
                      [learned EXCEPT
                          !.correlated_sensors[names[i + 1]] = Append(@, names[idx + 1]),
                          !.correlated_sensor_indices[names[i + 1]] = Append(@, idx)])

RECURSIVE learn_loop(_, _, _, _)
\* learn_correlations, lines 82-88: the loop over the rows of the
\* correlation matrix from row i on.  self.sensor_names[i] raises IndexError
\* for a row that is no sensor index
learn_loop(i, data, names, learned) ==
    IF learned.raised \/ i >= pearson_size(data) THEN learned
    ELSE IF i >= Len(names) THEN [learned EXCEPT !.raised = TRUE]
    ELSE learn_loop(i + 1, data, names,
                    learn_idx_loop(i, Ascending(CorrelatedIdx(data, i)), 1, names, learned))

\* SFDD.learn_correlations: the two maps after the call (the lists are
\* appended to, never cleared), and whether the call raised IndexError.  The
\* YAML file the call writes last is not modelled
learn_correlations(names, correlated, correlated_indices, data) ==
    learn_loop(0, data, names,
               [correlated_sensors |-> correlated,
                correlated_sensor_indices |-> correlated_indices,
                raised |-> FALSE])

RECURSIVE find_corr_loop(_, _, _, _, _, _, _)
\* find_normal_patterns, lines 120-131: the loop over the learned correlated
\* indices of one sensor from position k on; yields the sensor's list
find_corr_loop(correlated_sensor_idx, k, independent, patterns, names, active_pattern_idx, pairs) ==
    IF k > Len(correlated_sensor_idx) THEN pairs
    ELSE LET sensor_idx == correlated_sensor_idx[k]
         IN  IF sensor_idx \notin independent \/ ~AnyPattern(patterns, sensor_idx)
             THEN find_corr_loop(correlated_sensor_idx, k + 1, independent, patterns,
                                 names, active_pattern_idx, pairs)
             ELSE LET pattern_tuple == <<active_pattern_idx, NameAt(names, sensor_idx),
                                         FirstPattern(patterns, sensor_idx)>>
                  IN  find_corr_loop(correlated_sensor_idx, k + 1, independent, patterns,
                                     names, active_pattern_idx,
                                     IF InList(pattern_tuple, pairs) THEN pairs
                                     ELSE Append(pairs, pattern_tuple))

RECURSIVE find_sensor_loop(_, _, _, _, _, _)
\* find_normal_patterns, lines 102-131: the loop over the sensors from sensor
\* j (0-based) on, for one window
find_sensor_loop(j, names, independent, correlated_indices, patterns, pattern_pairs) ==
    IF j >= Len(names) THEN pattern_pairs
    ELSE IF ~AnyPattern(patterns, j)
    THEN find_sensor_loop(j + 1, names, independent, correlated_indices, patterns, pattern_pairs)
    ELSE LET sensor == names[j + 1]
         IN  find_sensor_loop(j + 1, names, independent, correlated_indices, patterns,
                 [pattern_pairs EXCEPT ![sensor] =
                     find_corr_loop(correlated_indices[sensor], 1, independent[sensor],
                                    patterns, names, FirstPattern(patterns, j), @)])

\* range(data.shape[0] - window_size): the window starts find_normal_patterns
\* visits are 0 .. WindowStartBound - 1
WindowStartBound(data, window_size) == NumRows(data) - window_size

RECURSIVE find_window_loop(_, _, _, _, _, _, _, _)
\* find_normal_patterns, lines 97-131: the loop over the window starts from
\* start i on.  The patterns of data[i:i+window_size] are computed with the
\* whole timestamps list
find_window_loop(i, data, timestamps, window_size, names, independent, correlated_indices, pattern_pairs) ==
    IF i >= WindowStartBound(data, window_size) THEN pattern_pairs
    ELSE find_window_loop(i + 1, data, timestamps, window_size, names, independent,
             correlated_indices,
             find_sensor_loop(0, names, independent, correlated_indices,
                 calculate_patterns(Slice(data, i, i + window_size), timestamps),
                 pattern_pairs))

\* SFDD.find_normal_patterns with an explicit window_size of two or more:
\* self.sensor_pattern_pairs after the call.  The YAML file the call writes
\* last is not modelled
find_normal_patterns(names, independent, correlated_indices, data, timestamps, window_size) ==
    find_window_loop(0, data, timestamps, window_size, names, independent,
                     correlated_indices, [sensor \in NameSet(names) |-> <<>>])

RECURSIVE extended_corr_loop_dependent(_, _, _, _, _, _, _, _)
\* the loop of monitor_sensors_extended without its test of structural
\* independence
extended_corr_loop_dependent(correlated_sensor_idx, k, independent, patterns, names, active_pattern_idx, sensor, pattern_pairs) ==
    IF k > Len(correlated_sensor_idx) THEN "continue"
    ELSE LET j == correlated_sensor_idx[k]
         IN  IF ~AnyPattern(patterns, j)
             THEN extended_corr_loop_dependent(correlated_sensor_idx, k + 1, independent,
                      patterns, names, active_pattern_idx, sensor, pattern_pairs)
             ELSE IF sensor \notin DOMAIN pattern_pairs
             THEN "KeyError"
             ELSE IF ~InList(<<active_pattern_idx, NameAt(names, j), FirstPattern(patterns, j)>>,
                             pattern_pairs[sensor])
             THEN "append"
             ELSE extended_corr_loop_dependent(correlated_sensor_idx, k + 1, independent,
                      patterns, names, active_pattern_idx, sensor, pattern_pairs)

RECURSIVE extended_corr_loop(_, _, _, _, _, _, _, _)
\* monitor_sensors_extended, lines 171-182: the loop over the learned
\* correlated indices of one sensor from position k on.  "append": the sensor
\* is appended to anomalous_sensors and the loop left by break; "KeyError":
\* self.sensor_pattern_pairs has no entry for the sensor at line 180;
\* "continue": the loop ends without either
extended_corr_loop(correlated_sensor_idx, k, independent, patterns, names, active_pattern_idx, sensor, pattern_pairs) ==
    IF k > Len(correlated_sensor_idx) THEN "continue"
    ELSE LET j == correlated_sensor_idx[k]
         IN  IF j \notin independent \/ ~AnyPattern(patterns, j)
             THEN extended_corr_loop(correlated_sensor_idx, k + 1, independent, patterns,
                                     names, active_pattern_idx, sensor, pattern_pairs)
             ELSE IF sensor \notin DOMAIN pattern_pairs
             THEN "KeyError"
             ELSE IF ~InList(<<active_pattern_idx, NameAt(names, j), FirstPattern(patterns, j)>>,
                             pattern_pairs[sensor])
             THEN "append"
             ELSE extended_corr_loop(correlated_sensor_idx, k + 1, independent, patterns,
                                     names, active_pattern_idx, sensor, pattern_pairs)

RECURSIVE extended_loop(_, _, _, _, _, _)
\* monitor_sensors_extended, lines 155-183: the loop over the sensors from
\* sensor i (0-based) on; yields the sensors appended from there on, in
\* order, or that KeyError was raised
extended_loop(i, names, independent, correlated_indices, pattern_pairs, patterns) ==
    IF i >= Len(names) THEN Returned(<<>>)
    ELSE LET sensor == names[i + 1]
             rest == extended_loop(i + 1, names, independent, correlated_indices,
                                   pattern_pairs, patterns)
             outcome == IF ~AnyPattern(patterns, i) THEN "continue"
                        ELSE extended_corr_loop(correlated_indices[sensor], 1,
                                 independent[sensor], patterns, names,
                                 FirstPattern(patterns, i), sensor, pattern_pairs)
         IN  IF outcome = "KeyError" \/ rest.raised THEN Raised
             ELSE IF outcome = "append" THEN Returned(<<sensor>> \o rest.value)
             ELSE rest

\* SFDD.monitor_sensors_extended: the list returned, or KeyError raised at
\* self.sensor_pattern_pairs[sensor] (line 180) when the map has no entry
\* for a sensor that gets there
monitor_sensors_extended(names, independent, correlated_indices, pattern_pairs, data, timestamps) ==
    extended_loop(0, names, independent, correlated_indices, pattern_pairs,
                  calculate_patterns(data, timestamps))

-----------------------------------------------------------------------------
(* Inputs: structural model descriptions *)

\* A description of two subsystems X, Y and three sensors A, B, C, in that
\* order, each with the parents it lists
Description(pX, pY, pA, pB, pC) ==
    << ComponentParams("X", SUBSYSTEM, pX), ComponentParams("Y", SUBSYSTEM, pY),
       ComponentParams("A", SENSOR, pA), ComponentParams("B", SENSOR, pB),
       ComponentParams("C", SENSOR, pC) >>

\* The descriptions a load is tried on: Z is the name of no component, and
\* a sensor may list another sensor as its parent
Descriptions ==
    { Description(pX, pY, pA, pB, pC) :
        pX \in {{}, {"Z"}}, pY \in {{}, {"X"}},
        pA \in SUBSET {"X", "Y"}, pB \in SUBSET {"X", "Y"},
        pC \in (SUBSET {"X", "Y"}) \cup {{"A"}, {"Z"}} }

\* The systems the monitoring and learning runs are made on: A and B under
\* X with C under Y; A a parent of B with C under Y; all three under X
EngineDescriptions ==
    { Description({}, {}, {"X"}, {"X"}, {"Y"}),
      Description({}, {}, {}, {"A"}, {"Y"}),
      Description({}, {}, {"X"}, {"X"}, {"X"}) }

\* the names a description's components list as parents without describing
UnknownParents(config) ==
    UNION {config[k].parents : k \in 1..Len(config)} \ {config[k].name : k \in 1..Len(config)}

-----------------------------------------------------------------------------
(* Inputs: measurement windows *)

\* Three samples of the three sensors A, B, C.  As sensors (columns) only B
\* and C are correlated above 0.8; as samples (rows) the first is constant,
\* so NaN against the other two, which are not correlated with each other
LeadingBlocks ==
    { << <<0, 0, 0>>, <<0, 1, 3>>, <<1, 0, 0>> >> }

\* Three samples of one sensor: constant (stuck), a steady ramp (no
\* pattern), a knee below the stuck threshold (stuck and drift)
TrailingShapes == { <<1, 1, 1>>, <<0, 3, 6>>, <<0, 0, 1>> }

\* the three-sensor matrix whose columns are a, b and c
FromColumns(a, b, c) == [r \in 1..Len(a) |-> <<a[r], b[r], c[r]>>]

TrailingBlocks ==
    { FromColumns(a, b, c) : a \in TrailingShapes, b \in TrailingShapes, c \in TrailingShapes }

\* The windows the basic monitoring call is made on
BasicWindows == { lead \o trail : lead \in LeadingBlocks, trail \in TrailingBlocks }

\* evenly spaced timestamps 0, 1, ..., n-1 (in TimeTick)
Uniform(n) == [k \in 1..n |-> k - 1]

\* the window_size arguments tried: the default, and two leading rows
BasicWindowSizes == {-1, 2}

\* Measurements of each of the sensors A, B and C over a training set of
\* three samples (steps of one or two MeasTick stay below the stuck-at
\* threshold, larger ones exceed it)
TrainingShapesA == { <<0, 0, 1>>, <<2, 5, 1>>, <<1, 2, 5>> }

TrainingShapesB == { <<0, 1, 2>>, <<1, 1, 5>>, <<5, 0, 5>> }

TrainingShapesC == { <<0, 2, 0>>, <<5, 1, 2>>, <<1, 0, 2>> }

\* The training sets: three samples of the three sensors, and one of four
\* samples (more samples than sensors)
TrainingData ==
    { FromColumns(a, b, c) :
        a \in TrainingShapesA, b \in TrainingShapesB, c \in TrainingShapesC }
    \cup { << <<0, 0, 0>>, <<0, 1, 3>>, <<1, 0, 0>>, <<1, 1, 3>> >> }

\* the window_size arguments of find_normal_patterns
ExtendedWindowSizes == {2, 3}

\* Windows of test data monitored besides the windows of the training set
TestWindows == { FromColumns(a, b, b) : a \in TrailingShapes, b \in TrailingShapes }

\* No training set is loaded
NoTraining == [data |-> <<>>, timestamps |-> <<>>]

\* learn_correlations appends to its lists on every call: the calls made on
\* one engine
MaxLearnCalls == 2

-----------------------------------------------------------------------------
(* State machine *)

NoEngine ==
    /\ sensor_names = <<>>
    /\ independent_sensors = <<>>
    /\ correlated_sensors = <<>>
    /\ correlated_sensor_indices = <<>>
    /\ sensor_pattern_pairs = <<>>
    /\ sensor_working = <<>>

\* Nothing is loaded
InitUnloaded ==
    /\ phase = "unloaded"
    /\ model_config = <<>>
    /\ structural_model = NoModel
    /\ sensors = <<>>
    /\ NoEngine
    /\ training = NoTraining
    /\ learn_calls = 0
    /\ call = NoCall
    /\ result = Returned(<<>>)

\* StructuralModel.__init__(model_config_path)
LoadModel(config) ==
    /\ phase = "unloaded"
    /\ phase' = "loaded"
    /\ model_config' = config
    /\ structural_model' = create_model(read_model_data(config))
    /\ sensors' = SensorsOf(read_model_data(config))
    /\ call' = [op |-> "StructuralModel"]
    /\ result' = Returned(<<>>)
    /\ UNCHANGED <<engine_vars, script_vars>>

\* a call of find_independent_sensors(sensor, self.sensors) on the loaded model
FindIndependentSensors(sensor) ==
    /\ phase = "loaded"
    /\ call' = [op |-> "find_independent_sensors", sensor |-> sensor]
    /\ result' = find_independent_sensors(structural_model, sensor, sensors)
    /\ UNCHANGED <<phase, model_vars, engine_vars, script_vars>>

\* the fields SFDD.__init__ sets
EngineFields(graph, names) ==
    /\ sensor_names' = names
    /\ independent_sensors' = IndependenceMap(graph, names)
    /\ correlated_sensors' = [sensor \in NameSet(names) |-> <<>>]
    /\ correlated_sensor_indices' = [sensor \in NameSet(names) |-> <<>>]
    /\ sensor_pattern_pairs' = <<>>
    /\ sensor_working' = [sensor \in NameSet(names) |-> TRUE]

\* SFDD(structural_model.sensors, structural_model, 0.8, 2)
ConstructEngine ==
    /\ phase = "loaded"
    /\ call' = [op |-> "SFDD"]
    /\ IF InitRaises(structural_model, sensors)
       THEN /\ phase' = "engine_failed"
            /\ result' = Raised
            /\ UNCHANGED engine_vars
       ELSE /\ phase' = "engine"
            /\ result' = Returned(<<>>)
            /\ EngineFields(structural_model, sensors)
    /\ UNCHANGED <<model_vars, script_vars>>

NextLoad ==
    \/ \E config \in Descriptions : LoadModel(config)
    \/ \E sensor \in NameSet(sensors) : FindIndependentSensors(sensor)
    \/ ConstructEngine

\* Loading descriptions, querying the model and constructing the engine
SpecLoad == InitUnloaded /\ [][NextLoad]_vars

\* The state after StructuralModel(file) and SFDD(...) on one of the systems
EngineConstructed ==
    \E config \in EngineDescriptions :
        /\ phase = "engine"
        /\ model_config = config
        /\ structural_model = create_model(read_model_data(config))
        /\ sensors = SensorsOf(read_model_data(config))
        /\ sensor_names = sensors
        /\ independent_sensors = IndependenceMap(structural_model, sensors)
        /\ correlated_sensors = [sensor \in NameSet(sensors) |-> <<>>]
        /\ correlated_sensor_indices = [sensor \in NameSet(sensors) |-> <<>>]
        /\ sensor_pattern_pairs = <<>>
        /\ sensor_working = [sensor \in NameSet(sensors) |-> TRUE]
        /\ call = [op |-> "SFDD"]
        /\ result = Returned(<<>>)

\* monitor_sensors_basic(data, timestamps, window_size)
MonitorBasic(data, timestamps, window_size) ==
    /\ phase = "engine"
    /\ LET update == basic_update(sensor_names, independent_sensors, sensor_working,
                                  data, timestamps, window_size)
       IN  /\ sensor_working' = update.working
           /\ result' = IF update.raised THEN Raised
                        ELSE Returned(NotWorking(sensor_names, update.working))
    /\ call' = [op |-> "monitor_sensors_basic", data |-> data,
                timestamps |-> timestamps, window_size |-> window_size]
    /\ UNCHANGED <<phase, model_vars, sensor_names, independent_sensors,
                   correlated_sensors, correlated_sensor_indices, sensor_pattern_pairs,
                   script_vars>>

InitEngine ==
    /\ EngineConstructed
    /\ training = NoTraining
    /\ learn_calls = 0

Next ==
    \E data \in BasicWindows, window_size \in BasicWindowSizes :
        MonitorBasic(data, Uniform(NumRows(data)), window_size)

\* Basic monitoring calls on a constructed engine
Spec == InitEngine /\ [][Next]_vars

\* extended_sfdd_main.py, lines 14-25: the engine is constructed and a
\* training set loaded
InitExtended ==
    /\ EngineConstructed
    /\ \E data \in TrainingData :
           training = [data |-> data, timestamps |-> Uniform(NumRows(data))]
    /\ learn_calls = 0

\* learn_correlations(data, file) on the training set
LearnCorrelations ==
    /\ phase = "engine"
    /\ learn_calls < MaxLearnCalls
    /\ learn_calls' = learn_calls + 1
    /\ LET learned == learn_correlations(sensor_names, correlated_sensors,
                                         correlated_sensor_indices, training.data)
       IN  /\ correlated_sensors' = learned.correlated_sensors
           /\ correlated_sensor_indices' = learned.correlated_sensor_indices
           /\ result' = IF learned.raised THEN Raised ELSE Returned(<<>>)
    /\ call' = [op |-> "learn_correlations", data |-> training.data]
    /\ UNCHANGED <<phase, model_vars, sensor_names, independent_sensors,
                   sensor_pattern_pairs, sensor_working, training>>

\* find_normal_patterns(data, timestamps, file, window_size) on the training set
FindNormalPatterns(window_size) ==
    /\ phase = "engine"
    /\ sensor_pattern_pairs' =
           find_normal_patterns(sensor_names, independent_sensors, correlated_sensor_indices,
                                training.data, training.timestamps, window_size)
    /\ call' = [op |-> "find_normal_patterns", data |-> training.data,
                timestamps |-> training.timestamps, window_size |-> window_size]
    /\ result' = Returned(<<>>)
    /\ UNCHANGED <<phase, model_vars, sensor_names, independent_sensors, correlated_sensors,
                   correlated_sensor_indices, sensor_working, script_vars>>

\* an extended monitoring call that keeps a verdict the way the basic call
\* does: the flag of every sensor it returns is set to False
MonitorExtended_flagging(data, timestamps) ==
    /\ phase = "engine"
    /\ call' = [op |-> "monitor_sensors_extended", data |-> data, timestamps |-> timestamps]
    /\ result' = monitor_sensors_extended(sensor_names, independent_sensors,
                                          correlated_sensor_indices, sensor_pattern_pairs,
                                          data, timestamps)
    /\ sensor_working' = [sensor \in DOMAIN sensor_working |->
                              sensor_working[sensor] /\ ~InList(sensor, result'.value)]
    /\ UNCHANGED <<phase, model_vars, sensor_names, independent_sensors, correlated_sensors,
                   correlated_sensor_indices, sensor_pattern_pairs, script_vars>>

\* monitor_sensors_extended(data, timestamps)
MonitorExtended(data, timestamps) ==
    /\ phase = "engine"
    /\ call' = [op |-> "monitor_sensors_extended", data |-> data, timestamps |-> timestamps]
    /\ result' = monitor_sensors_extended(sensor_names, independent_sensors,
                                          correlated_sensor_indices, sensor_pattern_pairs,
                                          data, timestamps)
    /\ UNCHANGED <<phase, model_vars, engine_vars, script_vars>>

\* the window of window_size samples of the training set that starts at
\* sample i (0-based), and its own timestamps
TrainingWindow(i, window_size) == Slice(training.data, i, i + window_size)

TrainingWindowTimestamps(i, window_size) ==
    SubSeq(training.timestamps, i + 1, i + window_size)

\* the starts of the full windows of window_size samples in the training set
FullWindowStarts(window_size) == 0..(NumRows(training.data) - window_size)

NextExtended ==
    \/ LearnCorrelations
    \/ \E window_size \in ExtendedWindowSizes : FindNormalPatterns(window_size)
    \/ \E window_size \in ExtendedWindowSizes : \E i \in FullWindowStarts(window_size) :
           MonitorExtended(TrainingWindow(i, window_size),
                           TrainingWindowTimestamps(i, window_size))
    \/ \E data \in TestWindows : MonitorExtended(data, Uniform(NumRows(data)))

\* Learning on a training set and extended monitoring of windows
SpecExtended == InitExtended /\ [][NextExtended]_vars

\* The training sets of the engines that are both trained and monitored
MonitoringTrainingData ==
    { FromColumns(<<0, 0, 1>>, <<1, 1, 5>>, c) : c \in {<<1, 0, 2>>, <<0, 2, 0>>} }

\* The windows of the basic calls made on a trained engine
MonitoringBasicWindows ==
    { lead \o FromColumns(a, a, a) : lead \in LeadingBlocks, a \in TrailingShapes }

\* the engine is constructed and a training set loaded
InitMonitoring ==
    /\ EngineConstructed
    /\ \E data \in MonitoringTrainingData :
           training = [data |-> data, timestamps |-> Uniform(NumRows(data))]
    /\ learn_calls = 0

NextMonitoring ==
    \/ LearnCorrelations
    \/ \E window_size \in ExtendedWindowSizes : FindNormalPatterns(window_size)
    \/ \E window_size \in ExtendedWindowSizes : \E i \in FullWindowStarts(window_size) :
           MonitorExtended(TrainingWindow(i, window_size),
                           TrainingWindowTimestamps(i, window_size))
    \/ \E data \in MonitoringBasicWindows : MonitorBasic(data, Uniform(NumRows(data)), -1)

\* Learning on a training set, and monitoring calls of both kinds on the
\* same engine
SpecMonitoring == InitMonitoring /\ [][NextMonitoring]_vars

\* The longest measurement sequence handed to the pattern library
MaxSamples == 4

\* Measurement values of a sequence, in MeasTick
MeasurementValues == {0, 1, 3}

\* Distances between two consecutive timestamps, in TimeTick
TimeGaps == {1, 50}

\* the measurement sequences of n samples
Measurements(n) == [1..n -> MeasurementValues]

\* the timestamps that start at 0 and go on by the gaps given
TimestepsOf(gaps) == [k \in 1..(Len(gaps) + 1) |-> SumTo(gaps, k - 1)]

\* the increasing timestamp sequences of n samples
Timesteps(n) == { TimestepsOf(gaps) : gaps \in [1..(n - 1) -> TimeGaps] }

\* Nothing is loaded, and a measurement sequence with its timestamps is at
\* hand: the pattern library is static and needs no engine
InitPatterns ==
    /\ phase = "unloaded"
    /\ model_config = <<>>
    /\ structural_model = NoModel
    /\ sensors = <<>>
    /\ NoEngine
    /\ training = NoTraining
    /\ learn_calls = 0
    /\ \E n \in 2..MaxSamples :
           \E measurements \in Measurements(n), timesteps \in Timesteps(n) :
               call = [op |-> "arguments", measurements |-> measurements,
                       timesteps |-> timesteps]
    /\ result = Returned(<<>>)

\* PatternLibrary.drift(measurements, timesteps) with the default threshold
Drift ==
    /\ call.op = "arguments"
    /\ call' = [call EXCEPT !.op = "drift"]
    /\ result' = Returned(drift(call.measurements, call.timesteps))
    /\ UNCHANGED <<phase, model_vars, engine_vars, script_vars>>

NextPatterns == Drift

\* Calls of the pattern library on measurement sequences
SpecPatterns == InitPatterns /\ [][NextPatterns]_vars

-----------------------------------------------------------------------------
(* The notions the properties are stated with *)

\* Two sensors are correlated in a window: the absolute Pearson correlation
\* of their measurement columns i and j exceeds the threshold (an undefined
\* coefficient counts as 1)
SensorsCorrelated(window, i, j) ==
    LET c == Coefficient(Column(window, i), Column(window, j))
    IN  AboveThreshold(IF c.nan THEN Rat(1, 1) ELSE c.sq)

\* the leading rows of a basic monitoring call c: its correlation sub-window
CallWindowSize(c) == IF c.window_size = -1 THEN NumRows(c.data) \div 2 ELSE c.window_size

CorrelationWindow(c) == Slice(c.data, 0, CallWindowSize(c))

\* the patterns of the sensors in the investigation sub-window of call c
InvestigationPatterns(c) ==
    calculate_patterns(Slice(c.data, CallWindowSize(c), NumRows(c.data)), c.timestamps)

\* Pattern p of sensor i is corroborated in call c: a sensor structurally
\* independent of i and correlated with it shows p as well
Corroborated(c, patterns, i, p) ==
    \E j \in independent_sensors[NameAt(sensor_names, i)] :
        /\ SensorsCorrelated(CorrelationWindow(c), i, j)
        /\ patterns[j + 1][p + 1]

\* Sensor i shows a pattern in call c and none of its patterns is corroborated
Uncorroborated(c, i) ==
    LET patterns == InvestigationPatterns(c)
    IN  /\ AnyPattern(patterns, i)
        /\ \A p \in ActivePatterns(patterns, i) : ~Corroborated(c, patterns, i, p)

\* Sensor i shows a pattern in call c and each of its patterns is corroborated
AllCorroborated(c, i) ==
    LET patterns == InvestigationPatterns(c)
    IN  /\ AnyPattern(patterns, i)
        /\ \A p \in ActivePatterns(patterns, i) : Corroborated(c, patterns, i, p)

\* the set of the elements of a list
Elements(list) == {list[k] : k \in 1..Len(list)}

\* how often x occurs in a list
Occurrences(x, list) == Cardinality({k \in 1..Len(list) : list[k] = x})

-----------------------------------------------------------------------------
(* Properties of basic monitoring, under Spec *)

\* C1: basic monitoring with persisted flags: a call in which a sensor shows
\* an active pattern that no structurally independent, correlated sensor
\* shows returns and inverts the sensor's flag, so that from WORKING the flag
\* is SUSPECT after an odd number of such calls in a row and WORKING after an
\* even number; the sensor is in the returned list exactly when its flag is
\* SUSPECT after the call.
C1_UncorroboratedCallInvertsFlag ==
    [][ call'.op = "monitor_sensors_basic" =>
          \A i \in SensorIdx(sensor_names) :
              Uncorroborated(call', i) =>
                  /\ ~result'.raised
                  /\ sensor_working'[NameAt(sensor_names, i)]
                         = ~sensor_working[NameAt(sensor_names, i)]
                  /\ InList(NameAt(sensor_names, i), result'.value)
                         <=> ~sensor_working'[NameAt(sensor_names, i)] ]_vars

\* C2: stateless basic monitoring: a call that returns lists sensor i if and
\* only if i shows at least one active pattern in the investigation
\* sub-window and, for every pattern it shows, no sensor that is
\* structurally independent of i and correlated with i in the correlation
\* sub-window shows that pattern.
C2_BasicReturnsUncorroborated ==
    (call.op = "monitor_sensors_basic" /\ ~result.raised) =>
        \A i \in SensorIdx(sensor_names) :
            InList(NameAt(sensor_names, i), result.value) <=> Uncorroborated(call, i)

\* C3: after a basic monitoring call that returns, whatever the flags were
\* before: a sensor without an active pattern is WORKING, a sensor whose
\* patterns are corroborated is WORKING, and the returned list holds exactly
\* the sensors whose flag is SUSPECT.
C3_FlagsAfterBasicCall ==
    (call.op = "monitor_sensors_basic" /\ ~result.raised) =>
        \A i \in SensorIdx(sensor_names) :
            /\ ~AnyPattern(InvestigationPatterns(call), i)
                   => sensor_working[NameAt(sensor_names, i)]
            /\ AllCorroborated(call, i) => sensor_working[NameAt(sensor_names, i)]
            /\ InList(NameAt(sensor_names, i), result.value)
                   <=> ~sensor_working[NameAt(sensor_names, i)]

\* C9: stateless basic monitoring is a function of its arguments: a call
\* made with the arguments of the call before it, both returning, returns
\* what the call before it returned.
C9_SameArgumentsSameResult ==
    [][ ( /\ call.op = "monitor_sensors_basic"
          /\ call' = call
          /\ ~result.raised
          /\ ~result'.raised )
        => result'.value = result.value ]_vars

-----------------------------------------------------------------------------
(* Properties of the structural model, under SpecLoad *)

\* C8: structural independence is symmetric: a call of
\* find_independent_sensors for sensor A lists sensor B if and only if the
\* call for B lists A, and the index map of the engine agrees; a sensor with
\* at least one ancestor is never listed as independent of itself.
C8_IndependenceSymmetric ==
    /\ (call.op = "find_independent_sensors" /\ ~result.raised) =>
          /\ \A k \in 1..Len(sensors) :
                 InList(sensors[k], result.value)
                     <=> InList(call.sensor,
                                find_independent_sensors(structural_model, sensors[k],
                                                         sensors).value)
          /\ ancestors(structural_model, call.sensor) # {}
                 => ~InList(call.sensor, result.value)
    /\ phase = "engine" =>
          \A a, b \in SensorIdx(sensor_names) :
              /\ (b \in independent_sensors[NameAt(sensor_names, a)])
                     <=> (a \in independent_sensors[NameAt(sensor_names, b)])
              /\ ancestors(structural_model, NameAt(sensor_names, a)) # {}
                     => a \notin independent_sensors[NameAt(sensor_names, a)]

\* C8, reached: a call for a sensor with ancestors lists one other sensor
\* and leaves another one out
C8_Witness ==
    /\ call.op = "find_independent_sensors"
    /\ ~result.raised
    /\ ancestors(structural_model, call.sensor) # {}
    /\ \E b, c \in NameSet(sensors) \ {call.sensor} :
           InList(b, result.value) /\ ~InList(c, result.value)

\* C10: loading a description in which a component lists a parent that is
\* the name of no component fails with a configuration error and yields no
\* structural model; no graph is produced that has the unknown name as a node.
C10_UnknownParentRejected ==
    (call.op = "StructuralModel" /\ UnknownParents(model_config) # {}) =>
        /\ result.raised
        /\ structural_model = NoModel
        /\ UnknownParents(model_config) \cap structural_model.nodes = {}

-----------------------------------------------------------------------------
(* Properties of learning and extended monitoring, under SpecExtended *)

\* the patterns of the sensors in the full training window that starts at
\* sample i, computed with that window's timestamps
TrainingWindowPatterns(i, window_size) ==
    calculate_patterns(TrainingWindow(i, window_size),
                       TrainingWindowTimestamps(i, window_size))

\* The pairings of sensor i that a window with the given patterns holds: one
\* triple per learned-correlated, structurally independent sensor j that
\* shows a pattern while i shows one
Pairings(patterns, i) ==
    IF ~AnyPattern(patterns, i) THEN {}
    ELSE { <<FirstPattern(patterns, i), NameAt(sensor_names, j), FirstPattern(patterns, j)>> :
             j \in { t \in SensorIdx(sensor_names) :
                       /\ InList(t, correlated_sensor_indices[NameAt(sensor_names, i)])
                       /\ t \in independent_sensors[NameAt(sensor_names, i)]
                       /\ AnyPattern(patterns, t) } }

\* C4: after learn_correlations(data) and then find_normal_patterns(data,
\* timestamps, w) on the same training set, extended monitoring of any full
\* window data[i : i+w] of that set, with the window's timestamps, returns
\* no sensor.
C4_TrainingWindowsRaiseNoAlarm ==
    [][ ( /\ call.op = "find_normal_patterns"
          /\ learn_calls >= 1
          /\ NumRows(training.data) <= Len(sensor_names)
          /\ call'.op = "monitor_sensors_extended"
          /\ \E i \in FullWindowStarts(call.window_size) :
                 /\ call'.data = TrainingWindow(i, call.window_size)
                 /\ call'.timestamps = TrainingWindowTimestamps(i, call.window_size) )
        => result' = Returned(<<>>) ]_vars

\* C5: an extended monitoring call made once the pattern pairs are learned
\* returns, and lists sensor S if and only if S shows an active pattern and
\* some learned-correlated, structurally independent sensor T shows an active
\* pattern such that the triple (first pattern of S, T, first pattern of T)
\* is not in the learned pairings of S; no sensor is listed twice.  (On an
\* engine whose pattern pairs were never learned there is no entry to look
\* up: the call raises exactly when some sensor has such a T, and returns the
\* empty list otherwise.)
C5_ExtendedReturnsNovelPairings ==
    call.op = "monitor_sensors_extended" =>
        LET patterns == calculate_patterns(call.data, call.timestamps)
        IN  IF DOMAIN sensor_pattern_pairs # {}
            THEN /\ ~result.raised
                 /\ \A i \in SensorIdx(sensor_names) :
                        InList(NameAt(sensor_names, i), result.value)
                            <=> \E t \in Pairings(patterns, i) :
                                    ~InList(t, sensor_pattern_pairs[NameAt(sensor_names, i)])
                 /\ \A sensor \in Elements(result.value) :
                        Occurrences(sensor, result.value) = 1
            ELSE /\ result.raised
                     <=> \E i \in SensorIdx(sensor_names) : Pairings(patterns, i) # {}
                 /\ ~result.raised => result.value = <<>>

\* C5, reached: after learning, a call lists one sensor for a pairing not
\* learned and leaves out another sensor whose pairings are all learned
C5_Witness ==
    /\ call.op = "monitor_sensors_extended"
    /\ ~result.raised
    /\ DOMAIN sensor_pattern_pairs # {}
    /\ LET patterns == calculate_patterns(call.data, call.timestamps)
       IN  \E i, k \in SensorIdx(sensor_names) :
               /\ InList(NameAt(sensor_names, i), result.value)
               /\ Pairings(patterns, k) # {}
               /\ ~InList(NameAt(sensor_names, k), result.value)

\* C6: after find_normal_patterns(data, timestamps, w), for every sensor S
\* the learned pairings of S hold every triple (pattern of S, T, pattern of
\* T), T learned-correlated with and structurally independent of S, that
\* occurs in any full window data[i : i+w], 0 <= i <= R - w, and hold each
\* such triple exactly once.
C6_EveryFullWindowLearned ==
    call.op = "find_normal_patterns" =>
        \A i \in FullWindowStarts(call.window_size) :
            \A s \in SensorIdx(sensor_names) :
                \A t \in Pairings(TrainingWindowPatterns(i, call.window_size), s) :
                    Occurrences(t, sensor_pattern_pairs[NameAt(sensor_names, s)]) = 1

\* C7: after a learn_correlations(data) call that returns, the learned
\* correlated sensors of S are exactly the sensors T other than S whose
\* absolute correlation with S over the data exceeds the threshold (an
\* undefined coefficient counting as 1); the list of names and the list of
\* indices are parallel.
C7_LearnedFromSensorCorrelation ==
    (call.op = "learn_correlations" /\ ~result.raised) =>
        \A s \in SensorIdx(sensor_names) :
            LET sensor == NameAt(sensor_names, s)
            IN  /\ Elements(correlated_sensor_indices[sensor])
                       = { t \in SensorIdx(sensor_names) \ {s} :
                             SensorsCorrelated(call.data, s, t) }
                /\ Len(correlated_sensors[sensor]) = Len(correlated_sensor_indices[sensor])
                /\ \A k \in 1..Len(correlated_sensors[sensor]) :
                       correlated_sensors[sensor][k]
                           = NameAt(sensor_names, correlated_sensor_indices[sensor][k])


-----------------------------------------------------------------------------
(* The slopes of a measurement sequence *)

\* the indices i (0-based, 2..n-1) whose slope (m[i]-m[i-1])/(t[i]-t[i-1])
\* differs from the slope before it by more than the threshold
SlopeChanges(measurements, timesteps) ==
    {i \in 2..(Len(measurements) - 1) :
        SlopeExceeds(Slope(measurements, timesteps, i),
                     Slope(measurements, timesteps, i - 1))}

\* C11: for measurements and timestamps of two samples or more, drift returns
\* True if and only if exactly one of the consecutive slopes differs from the
\* slope before it by more than the threshold; it returns False when no slope
\* differs that much and False when two or more do.
C11_DriftIffOneSlopeChange ==
    call.op = "drift" =>
        /\ ~result.raised
        /\ result.value = (Cardinality(SlopeChanges(call.measurements, call.timesteps)) = 1)

\* drift has returned True on four samples of which one slope changes by more
\* than the threshold while another changes by less, not by nothing
C11_Witness ==
    /\ call.op = "drift"
    /\ result = Returned(TRUE)
    /\ Len(call.measurements) = 4
    /\ \E i \in 2..3 :
           /\ i \notin SlopeChanges(call.measurements, call.timesteps)
           /\ Slope(call.measurements, call.timesteps, i)
                  # Slope(call.measurements, call.timesteps, i - 1)

-----------------------------------------------------------------------------
(* The correlation matrix of a basic monitoring call *)

\* C12: for a correlation window of R >= 2 samples (rows) and N sensors
\* (columns) the matrix the engine computes and thresholds is N x N, and its
\* entry (i, j) relates the column of sensor i to the column of sensor j over
\* the R samples, whether or not R equals N; it is never indexed by sample.
C12_CorrelationMatrixPerSensor ==
    call.op = "monitor_sensors_basic" =>
        LET window == CorrelationWindow(call)
        IN  NumRows(window) >= 2 =>
                /\ pearson_size(window) = NumCols(window)
                /\ \A i, j \in 0..(NumCols(window) - 1) :
                       pearson(window, i, j)
                           = Coefficient(Column(window, i), Column(window, j))

-----------------------------------------------------------------------------
(* What a monitoring call leaves alone *)

\* C13: no monitoring call, basic or extended, changes the independence map,
\* the learned correlation map (names or indices) or the learned pattern-pair
\* map, and an extended monitoring call leaves every health flag unchanged as
\* well, after any sequence of learning and monitoring calls.
C13_MonitoringLeavesMapsUnchanged ==
    [][ /\ call'.op \in {"monitor_sensors_basic", "monitor_sensors_extended"} =>
            UNCHANGED <<independent_sensors, correlated_sensors,
                        correlated_sensor_indices, sensor_pattern_pairs>>
        /\ call'.op = "monitor_sensors_extended" => UNCHANGED sensor_working ]_vars

\* after learning of correlations and pattern pairs, and a basic call that
\* has left a sensor flagged, an extended call has returned an alarm
C13_Witness ==
    /\ call.op = "monitor_sensors_extended"
    /\ ~result.raised
    /\ result.value # <<>>
    /\ learn_calls > 0
    /\ \E sensor \in DOMAIN sensor_pattern_pairs : sensor_pattern_pairs[sensor] # <<>>
    /\ \E sensor \in DOMAIN sensor_working : ~sensor_working[sensor]

=============================================================================
